---- MODULE Spec2Model ----
(***************************************************************************)
(* A model of registry/default/magicui/text-animate.tsx: the TextAnimate   *)
(* component.  One render of TextAnimate splits the text into segments,    *)
(* selects the variant descriptors and hands every child its stagger       *)
(* offsets; the motion engine then moves the container and the children    *)
(* between the variants "hidden", "show" and "exit".                       *)
(*                                                                         *)
(* Times are in milliseconds (0.05 s is 50).  A string is a sequence of    *)
(* one-character strings.  An optional value is a sequence of length at    *)
(* most one: << >> is undefined, <<v>> is the value v.                      *)
(***************************************************************************)
EXTENDS Integers, Sequences, FiniteSets

VARIABLES props, pc, segments, finalVariants, itemCustom, containerCustom,
          whileInView, animate, viewportOnce,
          containerState, containerAnim, itemAnim, phase,
          inView, hasEnteredView, whileInViewActive

vars == <<props, pc, segments, finalVariants, itemCustom, containerCustom,
          whileInView, animate, viewportOnce,
          containerState, containerAnim, itemAnim, phase,
          inView, hasEnteredView, whileInViewActive>>

\* Longest text of the segmentation specification.
MaxLen == 3
\* Longest text of the timing and visibility specifications.
MaxTimingLen == 2

None == << >>
Some(v) == <<v>>
IsSome(o) == Len(o) = 1
OrElse(o, d) == IF IsSome(o) THEN o[1] ELSE d

(***************************************************************************)
(* Types of the props                                                      *)
(***************************************************************************)
AnimationType == {"text", "word", "character", "line"}

AnimationVariant ==
  {"fadeIn", "blurIn", "blurInUp", "blurInDown", "slideUp", "slideDown",
   "slideLeft", "slideRight", "scaleUp", "scaleDown"}

\* The default stagger of each granularity, in milliseconds.
staggerTimings(by) ==
  CASE by = "text" -> 60
    [] by = "word" -> 50
    [] by = "character" -> 30
    [] by = "line" -> 60

(***************************************************************************)
(* Segmentation: String.prototype.split as TextAnimate calls it            *)
(***************************************************************************)
\* What the regular expression class \s matches, among the model's characters.
IsSpace(c) == c \in {" ", "\n", "\t"}

RECURSIVE RunEnd(_, _)
\* The index after the whitespace run that starts at q: what (\s+), greedy,
\* matches at q.
RunEnd(s, q) ==
  IF q <= Len(s) /\ IsSpace(s[q]) THEN RunEnd(s, q + 1) ELSE q

RECURSIVE SplitWordFrom(_, _, _)
\* The loop of split with a regular expression: p is where the piece being
\* collected starts, q is where the next match is tried.  A match pushes the
\* piece before it and then its capture group.
SplitWordFrom(s, p, q) ==
  IF q > Len(s) THEN << SubSeq(s, p, Len(s)) >>
  ELSE IF IsSpace(s[q])
       THEN LET e == RunEnd(s, q)
            IN  << SubSeq(s, p, q - 1), SubSeq(s, q, e - 1) >>
                  \o SplitWordFrom(s, e, e)
       ELSE SplitWordFrom(s, p, q + 1)

RECURSIVE SplitNoCaptureFrom(_, _, _)
SplitNoCaptureFrom(s, p, q) ==
  IF q > Len(s) THEN << SubSeq(s, p, Len(s)) >>
  ELSE IF IsSpace(s[q])
       THEN LET e == RunEnd(s, q)
            IN  << SubSeq(s, p, q - 1) >> \o SplitNoCaptureFrom(s, e, e)
       ELSE SplitNoCaptureFrom(s, p, q + 1)

\* Mutant of SplitWord: the regular expression without its capture group,
\* split(/\s+/), which drops the whitespace runs.
SplitWordNoCapture(s) ==
  IF Len(s) = 0 THEN << s >> ELSE SplitNoCaptureFrom(s, 1, 1)

\* children.split(/(\s+)/): the empty string gives [""], since \s+ does not
\* match the empty string.
SplitWord(s) == IF Len(s) = 0 THEN << s >> ELSE SplitWordFrom(s, 1, 1)

\* Mutant of SplitCharacter: the whole text as one segment, as the "text"
\* case of the switch does.
SplitCharacterWhole(s) == << s >>

\* children.split(""): one segment per code unit; the empty string gives [].
SplitCharacter(s) == [i \in 1..Len(s) |-> << s[i] >>]

RECURSIVE SplitLineFrom(_, _, _)
SplitLineFrom(s, p, q) ==
  IF q > Len(s) THEN << SubSeq(s, p, Len(s)) >>
  ELSE IF s[q] = "\n"
       THEN << SubSeq(s, p, q - 1) >> \o SplitLineFrom(s, q + 1, q + 1)
       ELSE SplitLineFrom(s, p, q + 1)

RECURSIVE DropTrailingEmpty(_)
DropTrailingEmpty(ss) ==
  IF Len(ss) > 0 /\ Len(ss[Len(ss)]) = 0
  THEN DropTrailingEmpty(SubSeq(ss, 1, Len(ss) - 1))
  ELSE ss

\* Mutant of SplitLine: trailing empty lines are dropped.
SplitLineTrimmed(s) == DropTrailingEmpty(SplitLineFrom(s, 1, 1))

\* Mutant of SplitLine: split on every whitespace run instead of on "\n".
SplitLineOnSpace(s) == SplitWordNoCapture(s)

\* children.split("\n"): the separators are dropped; the empty string gives [""].
SplitLine(s) == SplitLineFrom(s, 1, 1)

\* The switch on by.
Segments(children, by) ==
  CASE by = "word" -> SplitWord(children)
    [] by = "character" -> SplitCharacter(children)
    [] by = "line" -> SplitLine(children)
    [] OTHER -> << children >>

(***************************************************************************)
(* The variant descriptors                                                 *)
(***************************************************************************)
\* A transition: every key optional.  y, opacity, filter and scale are the
\* per-property transitions.
Transition(delay, duration, y, opacity, filter, scale) ==
  [delay |-> delay, duration |-> duration, y |-> y, opacity |-> opacity,
   filter |-> filter, scale |-> scale]

\* The visual values of a variant: opacity, offsets in px, scale in percent,
\* blur radius in px; every key optional.
Target(opacity, x, y, scale, blur) ==
  [opacity |-> opacity, x |-> x, y |-> y, scale |-> scale, blur |-> blur]

Dur(d) == Some([duration |-> d])
Spring == Some([type |-> "spring", damping |-> 15, stiffness |-> 300])

\* { delay, duration: 0.3 }
Plain(delay) == Transition(Some(delay), Some(300), None, None, None, None)
\* { delay, duration: 0.3, y: ..., opacity: ..., filter: ... }
Blurred(delay) ==
  Transition(Some(delay), Some(300), Dur(300), Dur(400), Dur(300), None)
\* { delay, duration: 0.3, scale: { type: "spring", ... } }
Sprung(delay) == Transition(Some(delay), Some(300), None, None, None, Spring)

\* A variant as the engine resolves it: its label, its values (a Target for
\* a child, the optional opacity for the container), its transition.
Resolved(variant, target, transition) ==
  [variant |-> variant, target |-> target, transition |-> transition]

\* defaultItemAnimationVariants[animation].item.hidden
ItemHidden(animation) ==
  Resolved("hidden",
    CASE animation = "fadeIn" -> Target(Some(0), None, Some(20), None, None)
      [] animation = "blurIn" -> Target(Some(0), None, None, None, Some(10))
      [] animation = "blurInUp" -> Target(Some(0), None, Some(20), None, Some(10))
      [] animation = "blurInDown" -> Target(Some(0), None, Some(-20), None, Some(10))
      [] animation = "slideUp" -> Target(Some(0), None, Some(20), None, None)
      [] animation = "slideDown" -> Target(Some(0), None, Some(-20), None, None)
      [] animation = "slideLeft" -> Target(Some(0), Some(20), None, None, None)
      [] animation = "slideRight" -> Target(Some(0), Some(-20), None, None, None)
      [] animation = "scaleUp" -> Target(Some(0), None, None, Some(50), None)
      [] animation = "scaleDown" -> Target(Some(0), None, None, Some(150), None),
    None)

\* defaultItemAnimationVariants[animation].item.show, called with the child's
\* custom value.  blurInDown's show reads no entryStaggerDelay and sets no
\* top-level duration.
ItemShow(animation, custom) ==
  LET d == custom.entryStaggerDelay
  IN  CASE animation = "fadeIn" ->
             Resolved("show", Target(Some(1), None, Some(0), None, None), Some(Plain(d)))
        [] animation = "blurIn" ->
             Resolved("show", Target(Some(1), None, None, None, Some(0)), Some(Plain(d)))
        [] animation = "blurInUp" ->
             Resolved("show", Target(Some(1), None, Some(0), None, Some(0)), Some(Blurred(d)))
        [] animation = "blurInDown" ->
             Resolved("show", Target(Some(1), None, Some(0), None, Some(0)),
                      Some(Transition(None, None, Dur(300), Dur(400), Dur(300), None)))
        [] animation = "slideUp" ->
             Resolved("show", Target(Some(1), None, Some(0), None, None), Some(Plain(d)))
        [] animation = "slideDown" ->
             Resolved("show", Target(Some(1), None, Some(0), None, None), Some(Plain(d)))
        [] animation = "slideLeft" ->
             Resolved("show", Target(Some(1), Some(0), None, None, None), Some(Plain(d)))
        [] animation = "slideRight" ->
             Resolved("show", Target(Some(1), Some(0), None, None, None), Some(Plain(d)))
        [] animation = "scaleUp" ->
             Resolved("show", Target(Some(1), None, None, Some(100), None), Some(Sprung(d)))
        [] animation = "scaleDown" ->
             Resolved("show", Target(Some(1), None, None, Some(100), None), Some(Sprung(d)))

\* defaultItemAnimationVariants[animation].item.exit, called with the child's
\* custom value.
ItemExit(animation, custom) ==
  LET d == custom.exitStaggerDelay
  IN  CASE animation = "fadeIn" ->
             Resolved("exit", Target(Some(0), None, Some(20), None, None), Some(Plain(d)))
        [] animation = "blurIn" ->
             Resolved("exit", Target(Some(0), None, None, None, Some(10)), Some(Plain(d)))
        [] animation = "blurInUp" ->
             Resolved("exit", Target(Some(0), None, Some(20), None, Some(10)), Some(Blurred(d)))
        [] animation = "blurInDown" ->
             Resolved("exit", Target(Some(0), None, Some(-20), None, Some(10)), Some(Blurred(d)))
        [] animation = "slideUp" ->
             Resolved("exit", Target(Some(0), None, Some(-20), None, None), Some(Plain(d)))
        [] animation = "slideDown" ->
             Resolved("exit", Target(Some(0), None, Some(20), None, None), Some(Plain(d)))
        [] animation = "slideLeft" ->
             Resolved("exit", Target(Some(0), Some(-20), None, None, None), Some(Plain(d)))
        [] animation = "slideRight" ->
             Resolved("exit", Target(Some(0), Some(20), None, None, None), Some(Plain(d)))
        [] animation = "scaleUp" ->
             Resolved("exit", Target(Some(0), None, None, Some(50), None), Some(Plain(d)))
        [] animation = "scaleDown" ->
             Resolved("exit", Target(Some(0), None, None, Some(150), None), Some(Plain(d)))

\* defaultItemVariants: opacity only, no transition.
defaultItemVariants(variant) ==
  Resolved(variant,
           Target(Some(IF variant = "show" THEN 1 ELSE 0), None, None, None, None),
           None)

\* A container transition: { delay, when }.
ContainerTransition(delay, when) == [delay |-> delay, when |-> when]

\* defaultContainerVariants, resolved with the container's custom value.
defaultContainerVariants(variant, custom) ==
  CASE variant = "show" ->
         Resolved("show", Some(1), Some(ContainerTransition(custom.delay, "beforeChildren")))
    [] variant = "exit" ->
         Resolved("exit", Some(0), Some(ContainerTransition(custom.exitDelay, "afterChildren")))
    [] OTHER -> Resolved("hidden", Some(1), None)

\* finalVariants.container.show of the preset branch.  The spread of
\* container.show, a function, contributes no key: only the transition is left.
ContainerShow(custom) ==
  Resolved("show", None, Some(ContainerTransition(custom.delay, "beforeChildren")))

\* Mutant of ContainerExit: the exit transition delayed by the entry delay.
ContainerExitEntryDelay(custom) ==
  Resolved("exit", None, Some(ContainerTransition(custom.delay, "afterChildren")))

\* finalVariants.container.exit of the preset branch; the spread of the
\* function container.exit contributes no key.
ContainerExit(custom) ==
  Resolved("exit", None, Some(ContainerTransition(custom.exitDelay, "afterChildren")))

\* The descriptors are named by where they come from.
PresetVariants(animation) == [from |-> "preset", name |-> animation]
DefaultVariants == [from |-> "default", name |-> ""]
CustomVariants(name) == [from |-> "custom", name |-> name]

\* const finalVariants = animation ? {preset} : {default}.  The variants prop
\* is not read.
FinalVariants(animation, variants) ==
  IF animation # ""
  THEN [container |-> PresetVariants(animation), item |-> PresetVariants(animation)]
  ELSE [container |-> DefaultVariants, item |-> DefaultVariants]

\* finalVariants.container[variant], resolved with the container's custom value.
ResolveContainer(desc, variant, custom) ==
  IF desc.from = "preset"
  THEN CASE variant = "show" -> ContainerShow(custom)
         [] variant = "exit" -> ContainerExit(custom)
         [] OTHER -> defaultContainerVariants("hidden", custom)
  ELSE defaultContainerVariants(variant, custom)

\* finalVariants.item[variant], resolved with a child's custom value.
ResolveItem(desc, variant, custom) ==
  IF desc.from = "preset"
  THEN CASE variant = "show" -> ItemShow(desc.name, custom)
         [] variant = "exit" -> ItemExit(desc.name, custom)
         [] OTHER -> ItemHidden(desc.name)
  ELSE defaultItemVariants(variant)

(***************************************************************************)
(* TextAnimate: one render                                                 *)
(***************************************************************************)
\* Mutant of ItemCustom: the exit offset counted from n instead of n - 1.
ItemCustomOffByOne(i, n, staggerChildren) ==
  [entryStaggerDelay |-> i * staggerChildren,
   exitStaggerDelay |-> (n - i) * staggerChildren]

\* The custom value of the child at index i (from 0) of n segments.
ItemCustom(i, n, staggerChildren) ==
  [entryStaggerDelay |-> i * staggerChildren,
   exitStaggerDelay |-> (n - i - 1) * staggerChildren]

\* custom={{delay, exitDelay}}
ContainerCustom(delay, exitDelay) == [delay |-> delay, exitDelay |-> exitDelay]

\* Mutant of WhileInViewProp: whileInView="show" whatever startOnView is.
WhileInViewAlways(startOnView) == Some("show")

\* whileInView={startOnView ? "show" : undefined}
WhileInViewProp(startOnView) == IF startOnView THEN Some("show") ELSE None

\* animate={startOnView ? undefined : "show"}
AnimateProp(startOnView) == IF startOnView THEN None ELSE Some("show")

\* viewport={{ once: once }}
ViewportOnce(once) == once

\* The defaults of the destructured props.
ByOf(p) == OrElse(p.by, "word")
DelayOf(p) == OrElse(p.delay, 0)
ExitDelayOf(p) == OrElse(p.exitDelay, 0)
DurationOf(p) == OrElse(p.duration, 300)
StartOnViewOf(p) == OrElse(p.startOnView, TRUE)
OnceOf(p) == OrElse(p.once, FALSE)
StaggerChildrenOf(p) == OrElse(p.staggerChildren, staggerTimings(ByOf(p)))
AnimationOf(p) == OrElse(p.animation, "fadeIn")

\* The function body: the segments, the descriptors, the props of the container
\* and of every child.  The elements are created in the variant initial="hidden".
TextAnimate ==
  /\ pc = "init"
  /\ pc' = "rendered"
  /\ LET segs == Segments(props.children, ByOf(props))
         fv == FinalVariants(AnimationOf(props), props.variants)
     IN  /\ segments' = segs
         /\ finalVariants' = fv
         /\ itemCustom' = [k \in 1..Len(segs) |->
                             ItemCustom(k - 1, Len(segs), StaggerChildrenOf(props))]
         /\ containerCustom' = ContainerCustom(DelayOf(props), ExitDelayOf(props))
         /\ containerAnim' = ResolveContainer(fv.container, "hidden",
                                ContainerCustom(DelayOf(props), ExitDelayOf(props)))
         /\ itemAnim' = [k \in 1..Len(segs) |->
                           ResolveItem(fv.item, "hidden",
                             ItemCustom(k - 1, Len(segs), StaggerChildrenOf(props)))]
  /\ whileInView' = WhileInViewProp(StartOnViewOf(props))
  /\ animate' = AnimateProp(StartOnViewOf(props))
  /\ viewportOnce' = ViewportOnce(OnceOf(props))
  /\ containerState' = "hidden"
  /\ phase' = "idle"
  /\ UNCHANGED <<props, inView, hasEnteredView, whileInViewActive>>

(***************************************************************************)
(* The motion engine, as far as the props above configure it               *)
(***************************************************************************)
\* The `when` of a resolved container variant, "" when it has none.
WhenOf(r) == IF IsSome(r.transition) THEN r.transition[1].when ELSE ""

\* Every child in the variant v.
ChildrenIn(v) ==
  [k \in 1..Len(itemCustom) |-> ResolveItem(finalVariants.item, v, itemCustom[k])]

\* The container is told to animate to the variant v.  when: "beforeChildren"
\* starts the container's own transition first, when: "afterChildren" the
\* children's; without `when` both start together.
StartVariant(v) ==
  LET r == ResolveContainer(finalVariants.container, v, containerCustom)
  IN  /\ containerState' = v
      /\ CASE WhenOf(r) = "beforeChildren" ->
                /\ containerAnim' = r
                /\ phase' = "first"
                /\ UNCHANGED itemAnim
           [] WhenOf(r) = "afterChildren" ->
                /\ itemAnim' = ChildrenIn(v)
                /\ phase' = "first"
                /\ UNCHANGED containerAnim
           [] OTHER ->
                /\ containerAnim' = r
                /\ itemAnim' = ChildrenIn(v)
                /\ phase' = "done"

\* The side that `when` ordered first has finished: the other side starts.
ContinueVariant ==
  /\ pc \in {"rendered", "exiting"}
  /\ phase = "first"
  /\ phase' = "done"
  /\ containerAnim' =
       ResolveContainer(finalVariants.container, containerState, containerCustom)
  /\ itemAnim' = ChildrenIn(containerState)
  /\ UNCHANGED <<props, pc, segments, finalVariants, itemCustom, containerCustom,
                 whileInView, animate, viewportOnce, containerState,
                 inView, hasEnteredView, whileInViewActive>>

\* The element is mounted and the animation its animate prop asks for at the
\* mount has started: view events and the removal come after that.
Mounted == pc = "rendered" /\ (IsSome(animate) => containerState # "hidden")

\* The animate prop, when set, is animated to as soon as the element is mounted.
AnimateOnMount ==
  /\ pc = "rendered"
  /\ IsSome(animate)
  /\ containerState = "hidden"
  /\ StartVariant(animate[1])
  /\ UNCHANGED <<props, pc, segments, finalVariants, itemCustom, containerCustom,
                 whileInView, animate, viewportOnce,
                 inView, hasEnteredView, whileInViewActive>>

\* The element comes into view: whileInView becomes active, and its variant
\* is animated to when it was not active already.
EnterView ==
  /\ Mounted
  /\ ~inView
  /\ inView' = TRUE
  /\ hasEnteredView' = TRUE
  /\ whileInViewActive' = TRUE
  /\ IF ~whileInViewActive /\ IsSome(whileInView)
     THEN StartVariant(whileInView[1])
     ELSE UNCHANGED <<containerState, containerAnim, itemAnim, phase>>
  /\ UNCHANGED <<props, pc, segments, finalVariants, itemCustom, containerCustom,
                 whileInView, animate, viewportOnce>>

\* The element leaves the view.  With viewport.once, after it has entered once
\* nothing more happens; otherwise whileInView is deactivated and the element
\* goes back to its initial variant.
LeaveView ==
  /\ Mounted
  /\ inView
  /\ inView' = FALSE
  /\ IF viewportOnce /\ hasEnteredView
     THEN UNCHANGED <<whileInViewActive, containerState, containerAnim, itemAnim, phase>>
     ELSE /\ whileInViewActive' = FALSE
          /\ IF IsSome(whileInView)
             THEN /\ containerState' = "hidden"
                  /\ containerAnim' =
                       ResolveContainer(finalVariants.container, "hidden", containerCustom)
                  /\ itemAnim' = ChildrenIn("hidden")
                  /\ phase' = "idle"
             ELSE UNCHANGED <<containerState, containerAnim, itemAnim, phase>>
  /\ UNCHANGED <<props, pc, segments, finalVariants, itemCustom, containerCustom,
                 whileInView, animate, viewportOnce, hasEnteredView>>

\* AnimatePresence: the component leaves the tree, exit="exit" is animated to.
Exit ==
  /\ Mounted
  /\ pc' = "exiting"
  /\ StartVariant("exit")
  /\ UNCHANGED <<props, segments, finalVariants, itemCustom, containerCustom,
                 whileInView, animate, viewportOnce,
                 inView, hasEnteredView, whileInViewActive>>

\* The exit animation is over: the element is removed.
Remove ==
  /\ pc = "exiting"
  /\ phase = "done"
  /\ pc' = "removed"
  /\ UNCHANGED <<props, segments, finalVariants, itemCustom, containerCustom,
                 whileInView, animate, viewportOnce,
                 containerState, containerAnim, itemAnim, phase,
                 inView, hasEnteredView, whileInViewActive>>

(***************************************************************************)
(* Specifications                                                          *)
(***************************************************************************)
\* The strings of length at most n over an alphabet.
Texts(alphabet, n) == UNION {[1..k -> alphabet] : k \in 0..n}

Optional(S) == {None} \cup {Some(v) : v \in S}

\* Before the first render: the props are the caller's, nothing is rendered.
InitWith(P) ==
  /\ props \in P
  /\ pc = "init"
  /\ segments = << >>
  /\ finalVariants = [container |-> DefaultVariants, item |-> DefaultVariants]
  /\ itemCustom = << >>
  /\ containerCustom = ContainerCustom(0, 0)
  /\ whileInView = None
  /\ animate = None
  /\ viewportOnce = FALSE
  /\ containerState = "hidden"
  /\ containerAnim = defaultContainerVariants("hidden", ContainerCustom(0, 0))
  /\ itemAnim = << >>
  /\ phase = "idle"
  /\ inView = FALSE
  /\ hasEnteredView = FALSE
  /\ whileInViewActive = FALSE

\* Timing: every preset and every timing prop, over short texts.
TimingProps ==
  [children : Texts({"a", " "}, MaxTimingLen),
   by : Optional(AnimationType),
   animation : Optional(AnimationVariant),
   delay : Optional({100}),
   exitDelay : Optional({200}),
   duration : Optional({1000}),
   variants : Optional({CustomVariants("caller")}),
   staggerChildren : Optional({0, 20}),
   startOnView : {None, Some(FALSE)},
   once : {None}]

\* Segmentation: every text over letters, blanks and newlines.
SegmentProps ==
  [children : Texts({"a", "b", " ", "\n"}, MaxLen),
   by : Optional(AnimationType),
   animation : {None},
   delay : {None},
   exitDelay : {None},
   duration : {None},
   variants : {None},
   staggerChildren : {None},
   startOnView : {None, Some(FALSE)},
   once : {None}]

\* Visibility: every setting of startOnView and once.
ViewProps ==
  [children : Texts({"a", " "}, MaxTimingLen),
   by : {None},
   animation : Optional(AnimationVariant),
   delay : {None},
   exitDelay : {None},
   duration : {None},
   variants : {None},
   staggerChildren : {None},
   startOnView : Optional(BOOLEAN),
   once : Optional(BOOLEAN)]

Init == InitWith(TimingProps)
InitSegment == InitWith(SegmentProps)
InitView == InitWith(ViewProps)

Next ==
  \/ TextAnimate
  \/ AnimateOnMount
  \/ EnterView
  \/ LeaveView
  \/ ContinueVariant
  \/ Exit
  \/ Remove

Spec == Init /\ [][Next]_vars
SpecSegment == InitSegment /\ [][Next]_vars
SpecView == InitView /\ [][Next]_vars

(***************************************************************************)
(* Properties                                                              *)
(***************************************************************************)
RECURSIVE Concat(_)
\* The segments joined in order, nothing between them.
Concat(ss) == IF Len(ss) = 0 THEN << >> ELSE Head(ss) \o Concat(Tail(ss))

RECURSIVE JoinWith(_, _)
\* The segments joined in order, sep between consecutive segments.
JoinWith(ss, sep) ==
  IF Len(ss) = 0 THEN << >>
  ELSE IF Len(ss) = 1 THEN ss[1]
  ELSE ss[1] \o << sep >> \o JoinWith(Tail(ss), sep)

\* The text without its characters c.
Without(s, c) == SelectSeq(s, LAMBDA x : x # c)

Count(s, c) == Cardinality({i \in 1..Len(s) : s[i] = c})

Rendered == pc # "init"

\* C1: the child at index i of n segments is given the entry offset i*s and the
\* exit offset (n-1-i)*s, where s is the caller's stagger interval when one is
\* given and otherwise 0.05 s for word (the default granularity), 0.03 s for
\* character and 0.06 s for text and for line.
C1_StaggerOffsets ==
  Rendered =>
    LET n == Len(segments)
        by == IF IsSome(props.by) THEN props.by[1] ELSE "word"
        s == IF IsSome(props.staggerChildren) THEN props.staggerChildren[1]
             ELSE IF by = "word" THEN 50
             ELSE IF by = "character" THEN 30
             ELSE 60
    IN  /\ Len(itemCustom) = n
        /\ \A k \in 1..n :
             /\ itemCustom[k].entryStaggerDelay = (k - 1) * s
             /\ itemCustom[k].exitStaggerDelay = (n - k) * s

\* C1 witness: three segments rendered with the default stagger of word; the
\* offsets run 0, 50, 100 on entry and 100, 50, 0 on exit.
C1_Witness ==
  /\ Rendered
  /\ props.staggerChildren = None
  /\ props.by = None
  /\ Len(itemCustom) = 3
  /\ itemCustom[3].entryStaggerDelay = 100
  /\ itemCustom[1].exitStaggerDelay = 100

\* C7: with granularity word the segments alternate between pieces without
\* whitespace (odd positions, possibly empty) and whole whitespace runs (even
\* positions, never empty), and joined in order they give the text back.
C7_WordRejoin ==
  (Rendered /\ ByOf(props) = "word") =>
    /\ Concat(segments) = props.children
    /\ \A k \in 1..Len(segments) :
         IF k % 2 = 0
         THEN /\ Len(segments[k]) > 0
              /\ \A i \in 1..Len(segments[k]) : IsSpace(segments[k][i])
         ELSE \A i \in 1..Len(segments[k]) : ~IsSpace(segments[k][i])

\* C7 witness: a text with leading and trailing whitespace, split by word into
\* "", " ", "a", " ", "".
C7_Witness ==
  /\ Rendered
  /\ ByOf(props) = "word"
  /\ props.children = << " ", "a", " " >>
  /\ segments = << << >>, << " " >>, << "a" >>, << " " >>, << >> >>

\* C8 as stated: the text split by character has strictly more segments than
\* the same text split by word, or as many when the text is one character.
C8_CharacterNeverFewer ==
  (Rendered /\ ByOf(props) = "character") =>
    \/ Len(segments) > Len(SplitWord(props.children))
    \/ /\ Len(segments) = Len(SplitWord(props.children))
       /\ Len(props.children) = 1

\* C8 amended: for a text that is not empty and neither starts nor ends with
\* whitespace, the split by character has at least as many segments as the
\* split by word, and as many exactly when every segment of the split by word
\* is one character long.
C8_CharacterNeverFewerAmended ==
  (/\ Rendered
   /\ ByOf(props) = "character"
   /\ Len(props.children) > 0
   /\ ~IsSpace(props.children[1])
   /\ ~IsSpace(props.children[Len(props.children)])) =>
    LET words == SplitWord(props.children)
    IN  /\ Len(segments) >= Len(words)
        /\ (Len(segments) = Len(words)) <=> (\A k \in 1..Len(words) : Len(words[k]) = 1)

\* C8 witness: "a b" split by character: three segments, as many as by word.
C8_Witness ==
  /\ Rendered
  /\ ByOf(props) = "character"
  /\ props.children = << "a", " ", "b" >>
  /\ Len(segments) = 3

\* C9: with granularity line there is one segment more than there are newline
\* characters in the text, and no segment holds a newline character.
C9_LineCount ==
  (Rendered /\ ByOf(props) = "line") =>
    /\ Len(segments) = Count(props.children, "\n") + 1
    /\ \A k \in 1..Len(segments) : Count(segments[k], "\n") = 0

\* C9 witness: a text with two newline characters, the last one at its end,
\* split into three lines.
C9_Witness ==
  /\ Rendered
  /\ ByOf(props) = "line"
  /\ props.children = << "a", "\n", "\n" >>
  /\ Len(segments) = 3

\* C10 as stated: with granularity line the segments, concatenated in order,
\* give the text back.
C10_LineRejoin ==
  (Rendered /\ ByOf(props) = "line") => Concat(segments) = props.children

\* C10 amended: with granularity line the segments joined with a newline
\* character between consecutive segments give the text back; concatenated
\* with nothing between them they give the text without its newline characters.
C10_LineRejoinAmended ==
  (Rendered /\ ByOf(props) = "line") =>
    /\ JoinWith(segments, "\n") = props.children
    /\ Concat(segments) = Without(props.children, "\n")

\* C10 witness: "a\nb" split into the lines "a" and "b".
C10_Witness ==
  /\ Rendered
  /\ ByOf(props) = "line"
  /\ props.children = << "a", "\n", "b" >>
  /\ segments = << << "a" >>, << "b" >> >>

\* The delay a child's transition starts after: the engine's default is 0.
StartDelay(r) ==
  IF IsSome(r.transition) /\ IsSome(r.transition[1].delay)
  THEN r.transition[1].delay[1]
  ELSE 0

\* C2 as stated: for every preset, at least two segments and a positive
\* stagger, every child's show transition is delayed by its entry offset and its
\* exit transition by its exit offset, so that the children start in strictly
\* ascending index order on entry and in strictly descending order on exit.
C2_StaggeredOrder ==
  (/\ phase = "done"
   /\ Len(segments) >= 2
   /\ StaggerChildrenOf(props) > 0) =>
    /\ containerState = "show" =>
         /\ \A k \in 1..Len(itemAnim) :
              /\ IsSome(itemAnim[k].transition)
              /\ itemAnim[k].transition[1].delay = Some(itemCustom[k].entryStaggerDelay)
         /\ \A k \in 1..(Len(itemAnim) - 1) :
              StartDelay(itemAnim[k]) < StartDelay(itemAnim[k + 1])
    /\ containerState = "exit" =>
         /\ \A k \in 1..Len(itemAnim) :
              /\ IsSome(itemAnim[k].transition)
              /\ itemAnim[k].transition[1].delay = Some(itemCustom[k].exitStaggerDelay)
         /\ \A k \in 1..(Len(itemAnim) - 1) :
              StartDelay(itemAnim[k]) > StartDelay(itemAnim[k + 1])

\* C3 as stated: when the caller supplies custom variants, the container and the
\* item descriptors used at render time are the caller's, not the preset's.
C3_CustomVariantsOverride ==
  (Rendered /\ IsSome(props.variants)) =>
    /\ finalVariants.container = props.variants[1]
    /\ finalVariants.item = props.variants[1]

\* The container is in the variant v, which `when` has run to its end.
ContainerRuns(v, delay, when) ==
  /\ containerAnim.variant = v
  /\ IsSome(containerAnim.transition)
  /\ containerAnim.transition[1].delay = delay
  /\ containerAnim.transition[1].when = when

\* C5: for every preset the container's show transition is delayed by the entry
\* delay and starts before the children's (no child has left "hidden" while the
\* container's transition is the only one started), and its exit transition is
\* delayed by the exit delay and starts after the children's (every child is in
\* "exit" before the container's exit transition is started).
C5_ContainerTiming ==
  LET delay == IF IsSome(props.delay) THEN props.delay[1] ELSE 0
      exitDelay == IF IsSome(props.exitDelay) THEN props.exitDelay[1] ELSE 0
      children(v) == \A k \in 1..Len(itemAnim) : itemAnim[k].variant = v
  IN  /\ (containerState = "show" /\ phase = "first") =>
            ContainerRuns("show", delay, "beforeChildren") /\ children("hidden")
      /\ (containerState = "show" /\ phase = "done") =>
            ContainerRuns("show", delay, "beforeChildren") /\ children("show")
      /\ (containerState = "exit" /\ phase = "first") =>
            containerAnim.variant # "exit" /\ children("exit")
      /\ (containerState = "exit" /\ phase = "done") =>
            ContainerRuns("exit", exitDelay, "afterChildren") /\ children("exit")

\* C5 witness: an exit with entry delay 0.1 s and exit delay 0.2 s in which the
\* children have started and the container's exit transition, delayed by 0.2 s,
\* has started after them.
C5_Witness ==
  /\ pc = "exiting"
  /\ phase = "done"
  /\ props.delay = Some(100)
  /\ props.exitDelay = Some(200)
  /\ Len(itemAnim) >= 2
  /\ containerAnim.variant = "exit"
  /\ containerAnim.transition[1].delay = 200

\* C6 as stated: for every preset the duration of each segment's enter and exit
\* transition is the caller's duration when one is given, and 0.3 s otherwise.
C6_DurationOverride ==
  LET duration == IF IsSome(props.duration) THEN props.duration[1] ELSE 300
  IN  \A k \in 1..Len(itemAnim) :
        itemAnim[k].variant \in {"show", "exit"} =>
          /\ IsSome(itemAnim[k].transition)
          /\ itemAnim[k].transition[1].duration = Some(duration)

\* A step in which the element enters the view, and one in which it leaves it.
Enters == ~inView /\ inView'
Leaves == inView /\ ~inView'
\* A step that starts the show animation.
Shows == containerState = "hidden" /\ containerState' = "show" /\ phase' = "first"

\* C4, the part that holds as stated: the container is rendered hidden; with
\* startOnView it is shown only by a step in which the element enters the view,
\* without startOnView it is shown by a step of no view event, which is enabled
\* as soon as the element is rendered; with once, a container that has been
\* shown is never hidden and shown again.
C4Start ==
  /\ (pc = "init" /\ pc' = "rendered") => containerState' = "hidden"
  /\ (containerState # "show" /\ containerState' = "show") =>
        IF StartOnViewOf(props) THEN Enters ELSE inView' = inView
  /\ (pc = "rendered" /\ ~StartOnViewOf(props) /\ containerState = "hidden") =>
        ENABLED AnimateOnMount
  /\ (OnceOf(props) /\ pc = "rendered" /\ containerState = "show") =>
        /\ containerState' \in {"show", "exit"}
        /\ (Enters \/ Leaves) => UNCHANGED <<containerState, containerAnim, itemAnim, phase>>

\* C4 as stated: C4Start, and without once every step in which the element
\* comes back into view after having left it starts the show animation again.
C4_ViewTrigger ==
  [][/\ C4Start
     /\ (~OnceOf(props) /\ hasEnteredView /\ Enters) => Shows]_vars

\* C4 amended: C4Start; without once and with startOnView every re-entry starts
\* the show animation again; without startOnView no view event changes the
\* animation state.
C4_ViewTriggerAmended ==
  [][/\ C4Start
     /\ (~OnceOf(props) /\ StartOnViewOf(props) /\ hasEnteredView /\ Enters) => Shows
     /\ (~StartOnViewOf(props) /\ (Enters \/ Leaves)) =>
           UNCHANGED <<containerState, containerAnim, itemAnim, phase>>]_vars

\* C4 witness: with startOnView and once, the element has been shown and has
\* left the view, and is still shown.
C4_Witness ==
  /\ pc = "rendered"
  /\ StartOnViewOf(props)
  /\ OnceOf(props)
  /\ hasEnteredView
  /\ ~inView
  /\ containerState = "show"
  /\ phase = "done"

====
